---- MODULE Spec2Model ----
(***************************************************************************)
(* A model of the tracking-and-violation core of the traffic violation     *)
(* detector: the trackers (src/tracking.py), the speed estimator and the   *)
(* rule engine (src/violations.py).                                        *)
(*                                                                         *)
(* Conventions.                                                            *)
(*  - A bounding box is <<x1, y1, x2, y2>>, a position <<x, y>>.           *)
(*  - A detection is [bbox, class_id]; a track is the dict update() builds *)
(*    [id, bbox, centroid, original_detection].                            *)
(*  - Time is counted in ticks of 1/TicksPerSec seconds.                   *)
(*  - Speeds are real numbers sqrt(d2) * num / den, kept exactly as the    *)
(*    record [d2, num, den]; the rounding of IEEE-754 doubles is not       *)
(*    modelled.                                                            *)
(*  - random.random() < p is a nondeterministic boolean.                   *)
(*  - An event is the dict a rule appends, without its 'timestamp' (a      *)
(*    datetime.now() reading no rule looks at); the naming of the evidence *)
(*    image, which reads it, puts it back with Stamped.                    *)
(***************************************************************************)
EXTENDS Integers, Sequences, FiniteSets, TLC

(***************************************************************************)
(* Bounds of the model.                                                    *)
(***************************************************************************)
\* ids one tracker instance may allocate before the model stops it
MaxIds == 2
\* detections handed to one update() call
MaxDets == 2
\* vehicle ids the speed estimator is asked about: 1..MaxVid
MaxVid == 2
\* rider ids the rules are asked about: 1..MaxRid
MaxRid == 2
\* estimate_speed calls in one run of the estimator
MaxCalls == 2
\* clock ticks per second (a tick is 40 ms)
TicksPerSec == 25
\* riders handed to one detect_triple_riding call
MaxRiders == 4
\* person detections in one frame of the pipeline
MaxPersons == 1

(***************************************************************************)
(* Program constants.                                                      *)
(***************************************************************************)
\* VehicleTracker.__init__(max_age=30)
MaxAge == 30
\* Config.OVERSPEED_THRESHOLD, km/h
OVERSPEED_THRESHOLD == 60
\* "speed > 5": the minimum speed of detect_overspeeding, km/h
MinSpeed == 5
\* Config.TRIPLE_RIDING_MAX_PERSONS
TRIPLE_RIDING_MAX_PERSONS == 3
\* "if distance < 100:" in _count_riders_near_vehicle, pixels
ProximityRadius == 100
\* config.FRAME_HEIGHT: the height run_live_detection resizes every frame to
FRAME_HEIGHT == 480
\* config.TRAFFIC_LIGHT_CLASS
TRAFFIC_LIGHT_CLASS == 9

Trackers == {"vehicle", "rider"}

\* Bounding boxes the detector may report (x1 < x2, y1 < y2).
BBoxes == { <<0, 0, 1, 1>>, <<0, 50, 1, 70>>, <<0, 51, 1, 71>>, <<90, 0, 110, 1>> }

\* COCO classes: config.VEHICLE_CLASSES (car, motorcycle here), PERSON_CLASS
ClassesOf(tr) == IF tr = "vehicle" THEN {2, 3} ELSE {0}

\* Boxes of the detections handed to the trackers: centroids (0,0), (0,60)
\* and (100,0)
TrackerBoxes == { <<0, 0, 1, 1>>, <<0, 50, 1, 70>>, <<90, 0, 110, 1>> }

Detections(tr) == { [bbox |-> b, class_id |-> c] : b \in TrackerBoxes, c \in ClassesOf(tr) }

\* Clock readings, in ticks: 0 s, 0.36 s and 1 s
Times == { 0, 9, TicksPerSec }

VehicleIds == 1..MaxVid

RiderIds == 1..MaxRid

\* traffic_light_bbox: None (no light), or the box of the nearest light
NoLight == << >>

Lights == { NoLight, <<90, 0, 110, 1>> }

\* Boxes of the vehicles handed to detect_signal_jump: centroid y of 0, 60, 61
SignalBoxes == { b \in BBoxes : b[1] = 0 }

\* Boxes of the riders handed to detect_helmetless_riding
RiderBoxes == { <<0, 0, 1, 1>>, <<0, 50, 1, 70>> }

\* stop_line_y values handed to detect_signal_jump
StopLines == { 10, 100 }

\* The sequences of length 0..n over S
SeqsUpTo(S, n) == UNION { [1..k -> S] : k \in 0..n }

VARIABLES
    next_id,      \* tracker -> self.next_id
    tracked,      \* the list the last update() call returned
    called,       \* the tracker of the last update() call ("none" before any)
    allocated,    \* history: tracker -> the ids given out, in order
    unmatched,    \* history: vehicle id -> update() calls since it was last returned
    evicted,      \* history: vehicle ids that went unmatched for more than MaxAge calls
    previous_positions,  \* SpeedEstimator: vehicle id -> last stored position
    previous_times,      \* SpeedEstimator: vehicle id -> last stored time
    est_log,      \* history: the estimate_speed calls made, with what each read and returned
    rule,         \* the rule of the last detect_* call ("none" before any)
    rule_tracks,  \* the tracks handed to it
    rule_aux,     \* the auxiliary signals handed to it
    violations,   \* the list it returned
    frame_result, \* what the last process_frame call did and returned
    evidence_list, \* EvidenceManager.evidence_list
    loaded        \* the dashboard: the list load_evidence returned

trackerVars == <<next_id, tracked, called, allocated, unmatched, evicted>>

speedVars == <<previous_positions, previous_times, est_log>>

ruleVars == <<rule, rule_tracks, rule_aux, violations>>

frameVars == <<frame_result, evidence_list, loaded>>

vars == <<trackerVars, speedVars, ruleVars, frameVars>>

(***************************************************************************)
(* Trackers: VehicleTracker and RiderTracker (the two classes share their  *)
(* code line for line).                                                    *)
(***************************************************************************)
\* A centroid taken at the top-left corner of the box
CentroidCorner(bbox) == << bbox[1], bbox[2] >>

\* 'centroid': ((bbox[0] + bbox[2]) // 2, (bbox[1] + bbox[3]) // 2)
Centroid(bbox) == << (bbox[1] + bbox[3]) \div 2, (bbox[2] + bbox[4]) \div 2 >>

\* Positions the estimator is called with: the centroids of BBoxes, that is
\* (0,0), (0,60), (0,61) and (100,0)
Positions == { Centroid(b) : b \in BBoxes }

\* A tracker that increments next_id once per call instead of once per detection
NewIdOncePerCall(nid, i) == nid + 1

\* A tracker that numbers the detections of every call from 1
NewIdPerCall(nid, i) == i

\* The id of the i-th detection of a call: self.next_id += 1 once per detection
NewId(nid, i) == nid + i

\* The dict appended for one detection
MkTrack(id, det) ==
    [ id |-> id,
      bbox |-> det.bbox,
      centroid |-> Centroid(det.bbox),
      original_detection |-> det ]

\* The list update() returns
UpdateTracks(nid, dets) == [ i \in 1..Len(dets) |-> MkTrack(NewId(nid, i), dets[i]) ]

\* self.next_id after the loop
NextIdAfter(nid, dets) == nid + Len(dets)

TrackIds(tracks) == { tracks[i].id : i \in 1..Len(tracks) }

Min(a, b) == IF a < b THEN a ELSE b

\* self.tracked_vehicles / self.tracked_riders: the dict of the actors a
\* tracker holds, by id. __init__ sets it to {} and update() never writes it.
TrackedActors(tr) == << >>

TrackerInit ==
    /\ next_id = [tr \in Trackers |-> 0]
    /\ tracked = << >>
    /\ called = "none"
    /\ allocated = [tr \in Trackers |-> << >>]
    /\ unmatched = << >>
    /\ evicted = {}

\* One update() call of the vehicle tracker's ages: an id returned by the call
\* is matched (0), every other known id has gone one more call unmatched.
AgeStep(ids) ==
    LET known == DOMAIN unmatched \union ids
    IN  [ i \in known |->
            IF i \in ids THEN 0 ELSE Min(unmatched[i] + 1, MaxAge + 1) ]

\* update(detections, frame) on tracker tr
Update(tr, dets) ==
    /\ next_id[tr] + Len(dets) <= MaxIds
    /\ LET out == UpdateTracks(next_id[tr], dets)
       IN  /\ tracked' = out
           /\ allocated' = [allocated EXCEPT ![tr] = @ \o [i \in 1..Len(out) |-> out[i].id]]
           /\ IF tr = "vehicle"
                 THEN /\ unmatched' = AgeStep(TrackIds(out))
                      /\ evicted' = evicted \union
                            { i \in DOMAIN unmatched' : unmatched'[i] > MaxAge }
                 ELSE UNCHANGED <<unmatched, evicted>>
    /\ next_id' = [next_id EXCEPT ![tr] = NextIdAfter(@, dets)]
    /\ called' = tr
    /\ UNCHANGED <<speedVars, ruleVars, frameVars>>

VehicleUpdate == \E dets \in SeqsUpTo(Detections("vehicle"), MaxDets) : Update("vehicle", dets)

RiderUpdate == \E dets \in SeqsUpTo(Detections("rider"), MaxDets) : Update("rider", dets)

TrackerNext == VehicleUpdate \/ RiderUpdate

(***************************************************************************)
(* SpeedEstimator.                                                         *)
(***************************************************************************)
RECURSIVE GCD(_, _)
GCD(a, b) == IF b = 0 THEN a ELSE GCD(b, a % b)

Abs(x) == IF x < 0 THEN -x ELSE x

\* The square of np.linalg.norm(np.array(p) - np.array(q))
DistSq(p, q) == (p[1] - q[1]) * (p[1] - q[1]) + (p[2] - q[2]) * (p[2] - q[2])

\* "return 0"
ZeroSpeed == [d2 |-> 0, num |-> 0, den |-> 1]

\* A speed computed without the 0.1 m/pixel scale
SpeedKmhUnscaled(d2, dt) ==
    IF d2 = 0 THEN ZeroSpeed
    ELSE LET n == 36 * TicksPerSec
             d == 10 * Abs(dt)
             g == GCD(n, d)
         IN  [d2 |-> d2, num |-> (IF dt < 0 THEN -1 ELSE 1) * (n \div g), den |-> d \div g]

\* speed_kmh for a squared pixel distance d2 over dt # 0 ticks:
\*   distance_meters = sqrt(d2) * 0.1, time_diff = dt / TicksPerSec,
\*   speed_kmh = distance_meters / time_diff * 3.6
\* that is sqrt(d2) * (36 * TicksPerSec) / (100 * dt), in lowest terms.
SpeedKmh(d2, dt) ==
    IF d2 = 0 THEN ZeroSpeed
    ELSE LET n == 36 * TicksPerSec
             d == 100 * Abs(dt)
             g == GCD(n, d)
         IN  [d2 |-> d2, num |-> (IF dt < 0 THEN -1 ELSE 1) * (n \div g), den |-> d \div g]

\* speed > k, for an integer k >= 0
SpeedGt(s, k) == s.num > 0 /\ s.d2 * s.num * s.num > k * k * s.den * s.den

\* speed = k, for an integer k >= 0
SpeedIs(s, k) == s.num >= 0 /\ s.d2 * s.num * s.num = k * k * s.den * s.den

SpeedNegative(s) == s.num < 0 /\ s.d2 > 0

\* A guard that only rules out a zero elapsed time
ElapsedNonZero(dt) == dt # 0

\* "if time_diff > 0:"
ElapsedPositive(dt) == dt > 0

\* An estimator that forgets to store the observation
StoreNothing(f, id, v) == f

\* self.previous_positions[vehicle_id] = current_pos (and likewise the time)
Store(f, id, v) == (id :> v) @@ f

\* An estimator that stores the observation on every call, also when it
\* returns a speed
EstimateSpeedOverwriting(pp, pt, id, pos, t) ==
    [ pp |-> Store(pp, id, pos), pt |-> Store(pt, id, t),
      speed |-> IF id \in DOMAIN pp /\ ElapsedPositive(t - pt[id])
                   THEN SpeedKmh(DistSq(pos, pp[id]), t - pt[id])
                   ELSE ZeroSpeed ]

\* estimate_speed(vehicle_id, current_pos, current_time) on the estimator
\* (pp, pt): the estimator after the call and the value returned
EstimateSpeed(pp, pt, id, pos, t) ==
    IF id \in DOMAIN pp /\ ElapsedPositive(t - pt[id])
        THEN [pp |-> pp, pt |-> pt, speed |-> SpeedKmh(DistSq(pos, pp[id]), t - pt[id])]
        ELSE [pp |-> Store(pp, id, pos), pt |-> Store(pt, id, t), speed |-> ZeroSpeed]

\* The record of one call: its arguments, the history it found, its result
LogEntry(pp, pt, id, pos, t, speed) ==
    [ id |-> id, pos |-> pos, time |-> t, speed |-> speed,
      known |-> id \in DOMAIN pp,
      prev_pos |-> IF id \in DOMAIN pp THEN pp[id] ELSE pos,
      prev_time |-> IF id \in DOMAIN pt THEN pt[id] ELSE t ]

\* One call on the state st = [pp, pt, log, out]
EstCall(st, id, pos, t) ==
    LET r == EstimateSpeed(st.pp, st.pt, id, pos, t)
    IN  [ pp |-> r.pp, pt |-> r.pt,
          log |-> Append(st.log, LogEntry(st.pp, st.pt, id, pos, t, r.speed)),
          out |-> st.out ]

SpeedInit ==
    /\ previous_positions = << >>
    /\ previous_times = << >>
    /\ est_log = << >>

\* A direct call of estimate_speed
EstimateSpeedCall ==
    /\ Len(est_log) < MaxCalls
    /\ \E id \in VehicleIds, pos \in Positions, t \in Times :
         LET st == EstCall([pp |-> previous_positions, pt |-> previous_times,
                            log |-> est_log, out |-> << >>], id, pos, t)
         IN  /\ previous_positions' = st.pp
             /\ previous_times' = st.pt
             /\ est_log' = st.log
    /\ rule' = "none"
    /\ rule_tracks' = << >>
    /\ rule_aux' = << >>
    /\ violations' = << >>
    /\ UNCHANGED <<trackerVars, frameVars>>

(***************************************************************************)
(* ViolationDetector.                                                      *)
(***************************************************************************)
\* A rule that also fires at the threshold
IsOverspeedInclusive(speed) ==
    (SpeedGt(speed, OVERSPEED_THRESHOLD) \/ SpeedIs(speed, OVERSPEED_THRESHOLD))
        /\ SpeedGt(speed, MinSpeed)

\* "if speed > threshold and speed > 5:"
IsOverspeed(speed) == SpeedGt(speed, OVERSPEED_THRESHOLD) /\ SpeedGt(speed, MinSpeed)

OverspeedEvent(vehicle, speed) ==
    [ type |-> "overspeeding", vehicle_id |-> vehicle.id,
      speed |-> speed, evidence |-> vehicle.bbox ]

\* The loop of detect_overspeeding from vehicle k on, on st = [pp, pt, log, out]
RECURSIVE OverspeedLoop(_, _, _, _)
OverspeedLoop(tracks, k, t, st) ==
    IF k > Len(tracks) THEN st
    ELSE LET v == tracks[k]
             c == EstCall(st, v.id, v.centroid, t)
             speed == c.log[Len(c.log)].speed
         IN  OverspeedLoop(tracks, k + 1, t,
                [c EXCEPT !.out = IF IsOverspeed(speed)
                                     THEN Append(@, OverspeedEvent(v, speed))
                                     ELSE @])

\* Track lists as update() calls return them: ids increasing along the list
TrackLists(ids, dets, n) ==
    { tl \in UNION { [1..k -> { MkTrack(i, d) : i \in ids, d \in dets }] : k \in 0..n } :
        \A a, b \in 1..Len(tl) : a < b => tl[a].id < tl[b].id }

\* Detections of class c with a box of B
DetsOf(B, c) == { [bbox |-> b, class_id |-> c] : b \in B }

RulesInit ==
    /\ rule = "none"
    /\ rule_tracks = << >>
    /\ rule_aux = << >>
    /\ violations = << >>

\* Before the first frame: nothing returned, no evidence held
FrameInit ==
    /\ frame_result = [status |-> "none"]
    /\ evidence_list = << >>
    /\ loaded = << >>

\* detect_overspeeding(vehicle_tracks, frame_time, speed_estimator)
DetectOverspeeding ==
    \E tracks \in TrackLists(VehicleIds, DetsOf(BBoxes, 2), MaxVid), t \in Times :
        /\ Len(est_log) + Len(tracks) <= MaxCalls
        /\ LET st == OverspeedLoop(tracks, 1, t,
                        [pp |-> previous_positions, pt |-> previous_times,
                         log |-> est_log, out |-> << >>])
           IN  /\ previous_positions' = st.pp
               /\ previous_times' = st.pt
               /\ est_log' = st.log
               /\ violations' = st.out
        /\ rule' = "overspeeding"
        /\ rule_tracks' = tracks
        /\ rule_aux' = [frame_time |-> t]
        /\ UNCHANGED <<trackerVars, frameVars>>

SpeedNext == EstimateSpeedCall \/ DetectOverspeeding

\* A test that takes an absent traffic_light_bbox for a light
TruthyAlways(x) == TRUE

\* Python's truth value of traffic_light_bbox
Truthy(x) == x # << >>

\* _is_red_light: "Placeholder: assume red light for demonstration"
IsRedLight(traffic_light_bbox) == TRUE

\* "if abs(vehicle_y - stop_line_y) < 50:"
NearStopLine(vehicle, stop_line_y) == Abs(vehicle.centroid[2] - stop_line_y) < 50

SignalJumpEvent(vehicle) ==
    [ type |-> "signal_jump", vehicle_id |-> vehicle.id, evidence |-> vehicle.bbox ]

\* Whether the loop of detect_signal_jump reaches "random.random() < 0.3" for
\* vehicle v
DrawsForSignalJump(v, light, stop_line_y) ==
    /\ Truthy(light) /\ IsRedLight(light)
    /\ NearStopLine(v, stop_line_y)

\* The loop of detect_signal_jump from vehicle k on; draws[k] is the outcome
\* of "random.random() < 0.3" for vehicle k (FALSE where it is not drawn)
RECURSIVE SignalJumpLoop(_, _, _, _, _, _)
SignalJumpLoop(tracks, k, light, stop_line_y, draws, out) ==
    IF k > Len(tracks) THEN out
    ELSE LET v == tracks[k]
             fires == DrawsForSignalJump(v, light, stop_line_y) /\ draws[k]
         IN  SignalJumpLoop(tracks, k + 1, light, stop_line_y, draws,
                IF fires THEN Append(out, SignalJumpEvent(v)) ELSE out)

\* detect_signal_jump(vehicle_tracks, traffic_light_bbox, stop_line_y)
DetectSignalJump ==
    \E tracks \in TrackLists(VehicleIds, DetsOf(SignalBoxes, 2), MaxVid),
       light \in Lights, stop_line_y \in StopLines :
      \E draws \in [1..Len(tracks) -> BOOLEAN] :
        /\ \A k \in 1..Len(tracks) :
                draws[k] => DrawsForSignalJump(tracks[k], light, stop_line_y)
        /\ violations' = SignalJumpLoop(tracks, 1, light, stop_line_y, draws, << >>)
        /\ rule' = "signal_jump"
        /\ rule_tracks' = tracks
        /\ rule_aux' = [traffic_light_bbox |-> light, stop_line_y |-> stop_line_y]
        /\ UNCHANGED <<trackerVars, speedVars, frameVars>>

\* helmet_detections lists: one {person_id, helmet_detected} dict for some of
\* the riders, in the riders' order, as HelmetDetector.detect_helmets lists them
HelmetLists(ids, n) ==
    { hl \in UNION { [1..k -> [person_id : ids, helmet_detected : BOOLEAN]] : k \in 0..n } :
        \A a, b \in 1..Len(hl) : a < b => hl[a].person_id < hl[b].person_id }

\* helmet_person_ids = [h['person_id'] for h in helmet_detections if h['helmet_detected']]
HelmetPersonIds(helmet_detections) ==
    { helmet_detections[i].person_id :
        i \in { j \in 1..Len(helmet_detections) : helmet_detections[j].helmet_detected } }

\* rider.get('on_motorcycle', True): the dicts update() builds have no such key
OnMotorcycle(rider) == TRUE

HelmetlessEvent(rider) ==
    [ type |-> "helmetless_riding", rider_id |-> rider.id, evidence |-> rider.bbox ]

\* The loop of detect_helmetless_riding from rider k on; draws[k] is the
\* outcome of "random.random() < 0.6" for rider k. helmet_person_ids is
\* computed before the loop and not read in it.
RECURSIVE HelmetlessLoop(_, _, _, _, _)
HelmetlessLoop(riders, k, helmet_person_ids, draws, out) ==
    IF k > Len(riders) THEN out
    ELSE LET r == riders[k]
             fires == OnMotorcycle(r) /\ draws[k]
         IN  HelmetlessLoop(riders, k + 1, helmet_person_ids, draws,
                IF fires THEN Append(out, HelmetlessEvent(r)) ELSE out)

\* detect_helmetless_riding(rider_tracks, helmet_detections)
DetectHelmetlessRiding ==
    \E riders \in TrackLists(RiderIds, DetsOf(RiderBoxes, 0), MaxRid),
       helmet_detections \in HelmetLists(RiderIds, MaxRid) :
      \E draws \in [1..Len(riders) -> BOOLEAN] :
        /\ violations' = HelmetlessLoop(riders, 1, HelmetPersonIds(helmet_detections),
                                        draws, << >>)
        /\ rule' = "helmetless_riding"
        /\ rule_tracks' = riders
        /\ rule_aux' = [helmet_detections |-> helmet_detections]
        /\ UNCHANGED <<trackerVars, speedVars, frameVars>>

RulesNext == DetectSignalJump \/ DetectHelmetlessRiding

(***************************************************************************)
(* detect_triple_riding. The rule reads no state, so its inputs are drawn  *)
(* by the initial state and one call is applied to them.                   *)
(***************************************************************************)
\* Boxes of the vehicles handed to detect_triple_riding: centroids (0,0), (0,60)
TripleVehicleBoxes == { <<0, 0, 1, 1>>, <<0, 50, 1, 70>> }

\* Boxes of the riders handed to it: centroids (0,60) and (100,0), that is 60
\* and 100 px from a vehicle at (0,0), 0 and about 117 px from one at (0,60)
TripleRiderBoxes == { <<0, 50, 1, 70>>, <<90, 0, 110, 1>> }

\* A rule that also fires at the threshold
ReachesMaxPersons(n) == n >= TRIPLE_RIDING_MAX_PERSONS

\* "if riders_near_vehicle > getattr(self.config, 'TRIPLE_RIDING_MAX_PERSONS', 2):"
ExceedsMaxPersons(n) == n > TRIPLE_RIDING_MAX_PERSONS

\* "if vehicle.get('original_detection', {}).get('class_id') == 3:"
IsMotorcycle(vehicle) == vehicle.original_detection.class_id = 3

\* "if distance < 100:"
NearVehicle(vehicle, rider) ==
    DistSq(vehicle.centroid, rider.centroid) < ProximityRadius * ProximityRadius

\* _count_riders_near_vehicle(vehicle, rider_tracks)
CountRidersNearVehicle(vehicle, rider_tracks) ==
    Cardinality({ k \in 1..Len(rider_tracks) : NearVehicle(vehicle, rider_tracks[k]) })

TripleRidingEvent(vehicle, riders_near_vehicle) ==
    [ type |-> "triple_riding", vehicle_id |-> vehicle.id,
      rider_count |-> riders_near_vehicle, evidence |-> vehicle.bbox ]

\* The loop of detect_triple_riding from vehicle k on
RECURSIVE TripleRidingLoop(_, _, _, _)
TripleRidingLoop(vehicle_tracks, k, rider_tracks, out) ==
    IF k > Len(vehicle_tracks) THEN out
    ELSE LET v == vehicle_tracks[k]
             riders_near_vehicle == CountRidersNearVehicle(v, rider_tracks)
             fires == IsMotorcycle(v) /\ ExceedsMaxPersons(riders_near_vehicle)
         IN  TripleRidingLoop(vehicle_tracks, k + 1, rider_tracks,
                IF fires THEN Append(out, TripleRidingEvent(v, riders_near_vehicle))
                         ELSE out)

\* The arguments of the call: tracked vehicles (cars and motorcycles) and
\* tracked riders
TripleInit ==
    /\ TrackerInit
    /\ SpeedInit
    /\ FrameInit
    /\ rule = "none"
    /\ violations = << >>
    /\ rule_tracks \in TrackLists(VehicleIds,
            DetsOf(TripleVehicleBoxes, 2) \union DetsOf(TripleVehicleBoxes, 3), MaxVid)
    /\ rule_aux \in [ rider_tracks :
            TrackLists(1..MaxRiders, DetsOf(TripleRiderBoxes, 0), MaxRiders) ]

\* detect_triple_riding(vehicle_tracks, rider_tracks)
DetectTripleRiding ==
    /\ rule = "none"
    /\ "rider_tracks" \in DOMAIN rule_aux
    /\ violations' = TripleRidingLoop(rule_tracks, 1, rule_aux.rider_tracks, << >>)
    /\ rule' = "triple_riding"
    /\ UNCHANGED <<rule_tracks, rule_aux, trackerVars, speedVars, frameVars>>

TripleNext == DetectTripleRiding

(***************************************************************************)
(* TrafficViolationDetector.process_frame: the pipeline of one frame.      *)
(***************************************************************************)
\* Boxes of the vehicles of a frame: centroids (0,240), on the stop line of a
\* 480-line frame, and (100,0)
FrameVehicleBoxes == { <<0, 230, 1, 250>>, <<90, 0, 110, 1>> }

\* Boxes of the persons of a frame
FramePersonBoxes == { <<0, 0, 1, 1>> }

\* Boxes of the traffic lights of a frame
FrameLightBoxes == { <<90, 0, 110, 1>> }

\* What the two collaborators of the evidence loop can do for one violation:
\*   "ok"          both succeed;
\*   "ocr_error"   pytesseract.image_to_string raises inside the try of
\*                 extract_license_plate, which returns "";
\*   "crop_error"  cv2.cvtColor / cv2.threshold raise on the cropped region,
\*                 before the try of extract_license_plate;
\*   "write_error" generate_evidence raises while drawing or writing the image.
CollaboratorOutcomes == { "ok", "ocr_error", "crop_error", "write_error" }

\* The outcomes that leave the collaborator as an exception: neither
\* extract_license_plate (outside its try), generate_evidence nor process_frame
\* catches them.
Propagates(outcome) == outcome \in { "crop_error", "write_error" }

\* lp_text: the stripped OCR text, or "" from the except branch
LpText(outcome) == IF outcome = "ocr_error" THEN "" ELSE "plate"

\* The dict generate_evidence returns (without the paths and the timestamp)
Evidence(violation, lp_text) ==
    [ violation_type |-> violation.type,
      license_plate |-> lp_text,
      bbox |-> violation.evidence ]

\* "for violation in violations:" from violation k on; an exception ends the
\* loop and process_frame with it
RECURSIVE EvidenceLoop(_, _, _, _)
EvidenceLoop(frame_violations, k, outcomes, list) ==
    IF k > Len(frame_violations) THEN [evidence_list |-> list, raised |-> FALSE]
    ELSE IF Propagates(outcomes[k]) THEN [evidence_list |-> list, raised |-> TRUE]
    ELSE EvidenceLoop(frame_violations, k + 1, outcomes,
            Append(list, Evidence(frame_violations[k], LpText(outcomes[k]))))

\* "stop_line_y = frame.shape[0] // 2"
StopLineOf(height) == height \div 2

\* process_frame(frame)
ProcessFrame ==
    \E vehicle_detections \in SeqsUpTo(DetsOf(FrameVehicleBoxes, 2), MaxDets),
       person_detections \in SeqsUpTo(DetsOf(FramePersonBoxes, 0), MaxPersons),
       traffic_light_detections \in SeqsUpTo(DetsOf(FrameLightBoxes, TRAFFIC_LIGHT_CLASS), 1),
       current_time \in Times :
      /\ next_id["vehicle"] + Len(vehicle_detections) <= MaxIds
      /\ next_id["rider"] + Len(person_detections) <= MaxIds
      /\ Len(est_log) + Len(vehicle_detections) <= MaxCalls
      /\ LET \* update() is called only for a non-empty list; for an empty
             \* one it would return [] and leave next_id alone all the same
             vehicle_tracks == UpdateTracks(next_id["vehicle"], vehicle_detections)
             rider_tracks == UpdateTracks(next_id["rider"], person_detections)
             signal_call == traffic_light_detections # << >> /\ vehicle_tracks # << >>
             light == IF signal_call THEN traffic_light_detections[1].bbox ELSE NoLight
             stop_line_y == StopLineOf(FRAME_HEIGHT)
             est == OverspeedLoop(vehicle_tracks, 1, current_time,
                        [pp |-> previous_positions, pt |-> previous_times,
                         log |-> est_log, out |-> << >>])
         IN  \E draws \in [1..Len(vehicle_tracks) -> BOOLEAN] :
               /\ \A k \in 1..Len(vehicle_tracks) :
                    draws[k] => (signal_call /\
                                 DrawsForSignalJump(vehicle_tracks[k], light, stop_line_y))
               /\ LET frame_violations ==
                        (IF signal_call
                            THEN SignalJumpLoop(vehicle_tracks, 1, light, stop_line_y,
                                                draws, << >>)
                            ELSE << >>) \o est.out
                  IN  \E outcomes \in [1..Len(frame_violations) -> CollaboratorOutcomes] :
                        /\ \A k \in 1..Len(frame_violations) :
                             outcomes[k] # "ok" =>
                                \A j \in 1..(k - 1) : ~Propagates(outcomes[j])
                        /\ LET ev == EvidenceLoop(frame_violations, 1, outcomes,
                                                  evidence_list)
                           IN  /\ evidence_list' = ev.evidence_list
                               /\ frame_result' =
                                    [ status |-> IF ev.raised THEN "raised" ELSE "returned",
                                      violations |-> frame_violations,
                                      vehicle_tracks |-> vehicle_tracks,
                                      rider_tracks |-> rider_tracks,
                                      outcomes |-> outcomes ]
               /\ UNCHANGED loaded
               /\ previous_positions' = est.pp
               /\ previous_times' = est.pt
               /\ est_log' = est.log
               /\ IF vehicle_tracks # << >>
                     THEN /\ rule' = "overspeeding"
                          /\ rule_tracks' = vehicle_tracks
                          /\ rule_aux' = [frame_time |-> current_time]
                          /\ violations' = est.out
                          /\ unmatched' = AgeStep(TrackIds(vehicle_tracks))
                          /\ evicted' = evicted \union
                                { i \in DOMAIN unmatched' : unmatched'[i] > MaxAge }
                     ELSE UNCHANGED <<ruleVars, unmatched, evicted>>
               /\ next_id' = [ tr \in Trackers |->
                                IF tr = "vehicle"
                                   THEN NextIdAfter(next_id[tr], vehicle_detections)
                                   ELSE NextIdAfter(next_id[tr], person_detections) ]
               /\ allocated' = [ tr \in Trackers |->
                                  allocated[tr] \o
                                    (IF tr = "vehicle"
                                        THEN [i \in 1..Len(vehicle_tracks) |-> vehicle_tracks[i].id]
                                        ELSE [i \in 1..Len(rider_tracks) |-> rider_tracks[i].id]) ]
               /\ IF rider_tracks # << >>
                     THEN tracked' = rider_tracks /\ called' = "rider"
                     ELSE IF vehicle_tracks # << >>
                             THEN tracked' = vehicle_tracks /\ called' = "vehicle"
                             ELSE UNCHANGED <<tracked, called>>

Next == ProcessFrame

(***************************************************************************)
(* The evidence image: EvidenceGenerator.generate_evidence names it and    *)
(* the dashboard's load_evidence parses the name. A string is the sequence *)
(* of its characters.                                                      *)
(***************************************************************************)
DigitChars == << "0", "1", "2", "3", "4", "5", "6", "7", "8", "9" >>

IsDigit(c) == \E d \in 0..9 : DigitChars[d + 1] = c

DigitValue(c) == CHOOSE d \in 0..9 : DigitChars[d + 1] = c

\* str(n) for an integer n >= 0
RECURSIVE Str(_)
Str(n) == IF n < 10 THEN << DigitChars[n + 1] >>
          ELSE Str(n \div 10) \o << DigitChars[(n % 10) + 1] >>

\* n in decimal, zero-padded to at least w characters (strftime's %Y, %m, ...)
Pad(n, w) == LET d == Str(n) IN [ i \in 1..(w - Len(d)) |-> "0" ] \o d

\* int(cs) for a sequence of digits
RECURSIVE ParseInt(_)
ParseInt(cs) ==
    IF cs = << >> THEN 0
    ELSE ParseInt(SubSeq(cs, 1, Len(cs) - 1)) * 10 + DigitValue(cs[Len(cs)])

\* s.replace(pat, ""): every occurrence of pat, left to right
RECURSIVE RemoveAll(_, _)
RemoveAll(s, pat) ==
    IF Len(s) < Len(pat) THEN s
    ELSE IF SubSeq(s, 1, Len(pat)) = pat
            THEN RemoveAll(SubSeq(s, Len(pat) + 1, Len(s)), pat)
            ELSE << s[1] >> \o RemoveAll(Tail(s), pat)

\* s.split(c)
RECURSIVE Split(_, _)
Split(s, c) ==
    IF s = << >> THEN << << >> >>
    ELSE LET r == Split(Tail(s), c)
         IN  IF s[1] = c THEN << << >> >> \o r
                         ELSE << << s[1] >> \o r[1] >> \o Tail(r)

\* c.join(parts)
RECURSIVE Join(_, _)
Join(parts, c) ==
    IF parts = << >> THEN << >>
    ELSE IF Len(parts) = 1 THEN parts[1]
    ELSE parts[1] \o << c >> \o Join(Tail(parts), c)

\* The text of the 'type' of the events the rules build
KindChars ==
    [ signal_jump       |-> << "s","i","g","n","a","l","_","j","u","m","p" >>,
      helmetless_riding |-> << "h","e","l","m","e","t","l","e","s","s","_",
                               "r","i","d","i","n","g" >>,
      overspeeding      |-> << "o","v","e","r","s","p","e","e","d","i","n","g" >>,
      wrong_lane        |-> << "w","r","o","n","g","_","l","a","n","e" >>,
      triple_riding     |-> << "t","r","i","p","l","e","_","r","i","d","i","n","g" >> ]

JpgSuffix == << ".", "j", "p", "g" >>

\* datetime.now() readings: with and without microseconds, with one-digit and
\* two-digit fields
Datetimes ==
    { [ year |-> 2026, month |-> 1, day |-> 2,
        hour |-> 3, minute |-> 4, second |-> 5, microsecond |-> 0 ],
      [ year |-> 2026, month |-> 1, day |-> 2,
        hour |-> 3, minute |-> 4, second |-> 5, microsecond |-> 999999 ],
      [ year |-> 2025, month |-> 12, day |-> 31,
        hour |-> 23, minute |-> 59, second |-> 59, microsecond |-> 500000 ] }

\* Actor ids of one, two and three digits
EvidenceIds == { 1, 10, 123 }

\* The dict detect_wrong_lane appends
WrongLaneEvent(vehicle) ==
    [ type |-> "wrong_lane", vehicle_id |-> vehicle.id, evidence |-> vehicle.bbox ]

\* "'timestamp': datetime.now()": the entry every rule puts in the dict it appends
Stamped(event, now) == [ timestamp |-> now ] @@ event

\* The events the five rules can append for the track of an actor
RuleEvents ==
    { Stamped(e, now) :
        e \in UNION { { SignalJumpEvent(MkTrack(i, [bbox |-> <<0, 0, 1, 1>>, class_id |-> 2])),
                        OverspeedEvent(MkTrack(i, [bbox |-> <<0, 0, 1, 1>>, class_id |-> 2]),
                                       SpeedKmh(100 * 100, 9)),
                        WrongLaneEvent(MkTrack(i, [bbox |-> <<0, 0, 1, 1>>, class_id |-> 2])),
                        TripleRidingEvent(MkTrack(i, [bbox |-> <<0, 0, 1, 1>>, class_id |-> 3]),
                                          TRIPLE_RIDING_MAX_PERSONS + 1),
                        HelmetlessEvent(MkTrack(i, [bbox |-> <<0, 0, 1, 1>>, class_id |-> 0])) } :
                      i \in EvidenceIds },
        now \in Datetimes }

\* violation['timestamp'].strftime("%Y%m%d_%H%M%S")
Strftime(ts) ==
    Pad(ts.year, 4) \o Pad(ts.month, 2) \o Pad(ts.day, 2) \o << "_" >>
        \o Pad(ts.hour, 2) \o Pad(ts.minute, 2) \o Pad(ts.second, 2)

\* f"{vehicle_id}" for violation.get('vehicle_id', violation.get('rider_id', 'unknown'))
IdChars(violation) ==
    IF "vehicle_id" \in DOMAIN violation THEN Str(violation.vehicle_id)
    ELSE IF "rider_id" \in DOMAIN violation THEN Str(violation.rider_id)
    ELSE << "u", "n", "k", "n", "o", "w", "n" >>

\* image_filename = f"{violation_type}_{vehicle_id}_{timestamp}.jpg"
ImageFilename(violation) ==
    KindChars[violation.type] \o << "_" >> \o IdChars(violation) \o << "_" >>
        \o Strftime(violation.timestamp) \o JpgSuffix

\* datetime.strptime(cs, "%Y%m%d_%H%M%S"): the value, or ok = FALSE for a
\* ValueError
Strptime(cs) ==
    IF /\ Len(cs) = 15
       /\ cs[9] = "_"
       /\ \A i \in (1..15) \ {9} : IsDigit(cs[i])
    THEN LET ts == [ year |-> ParseInt(SubSeq(cs, 1, 4)),
                     month |-> ParseInt(SubSeq(cs, 5, 6)),
                     day |-> ParseInt(SubSeq(cs, 7, 8)),
                     hour |-> ParseInt(SubSeq(cs, 10, 11)),
                     minute |-> ParseInt(SubSeq(cs, 12, 13)),
                     second |-> ParseInt(SubSeq(cs, 14, 15)),
                     microsecond |-> 0 ]
         IN  IF /\ ts.year >= 1 /\ ts.month \in 1..12 /\ ts.day \in 1..31
                /\ ts.hour <= 23 /\ ts.minute <= 59 /\ ts.second <= 61
             THEN [ok |-> TRUE, value |-> ts] ELSE [ok |-> FALSE]
    ELSE [ok |-> FALSE]

\* parts = filename.replace(".jpg", "").split("_")
FilenameParts(filename) == Split(RemoveAll(filename, JpgSuffix), "_")

\* A reader that takes the text before the first underscore as the kind
FirstPart(parts) == parts[1]

\* violation_type = "_".join(parts[:-3])
ViolationTypeOf(parts) == Join(SubSeq(parts, 1, Len(parts) - 3), "_")

\* vehicle_id = parts[-3]
VehicleIdOf(parts) == parts[Len(parts) - 2]

\* timestamp_str = f"{parts[-2]}_{parts[-1]}"
TimestampStrOf(parts) == parts[Len(parts) - 1] \o << "_" >> \o parts[Len(parts)]

\* The dict load_evidence appends for one file; now is the datetime.now() of
\* its except branch
LoadedEntry(filename, now) ==
    LET parts == FilenameParts(filename)
        parsed == Strptime(TimestampStrOf(parts))
    IN  [ violation_type |-> ViolationTypeOf(parts),
          timestamp |-> IF parsed.ok THEN parsed.value ELSE now,
          image_path |-> filename,
          license_plate |-> << "L", "P", "-" >> \o VehicleIdOf(parts),
          vehicle_id |-> VehicleIdOf(parts) ]

\* The dict generate_evidence returns, with the name of the image it wrote
\* (the directory and the clip are left out)
EvidenceWithPath(violation, lp_text) ==
    [ violation_type |-> violation.type,
      timestamp |-> violation.timestamp,
      image_path |-> ImageFilename(violation),
      license_plate |-> lp_text,
      bbox |-> violation.evidence ]

\* One event of a rule, ready for generate_evidence; no evidence yet
EvidenceInit ==
    /\ TrackerInit
    /\ SpeedInit
    /\ FrameInit
    /\ rule = "none"
    /\ rule_tracks = << >>
    /\ rule_aux = << >>
    /\ violations \in { << e >> : e \in RuleEvents }

\* generate_evidence(violation, frame) and add_evidence(evidence), as the loop
\* of process_frame does for a violation
GenerateEvidence ==
    /\ evidence_list = << >>
    /\ Len(violations) = 1
    /\ "timestamp" \in DOMAIN violations[1]
    /\ evidence_list' = Append(evidence_list, EvidenceWithPath(violations[1], ""))
    /\ UNCHANGED <<trackerVars, speedVars, ruleVars, frame_result, loaded>>

\* load_evidence() on the image files written so far (here one); a file name
\* of fewer than 4 parts is skipped
LoadEvidence ==
    /\ evidence_list # << >>
    /\ loaded = << >>
    /\ "image_path" \in DOMAIN evidence_list[1]
    /\ LET filename == evidence_list[1].image_path
           parts == FilenameParts(filename)
       IN  /\ Len(parts) >= 4
           /\ \E now \in Datetimes :
                /\ Strptime(TimestampStrOf(parts)).ok =>
                        now = CHOOSE d \in Datetimes : TRUE
                /\ loaded' = << LoadedEntry(filename, now) >>
    /\ UNCHANGED <<trackerVars, speedVars, ruleVars, frame_result, evidence_list>>

EvidenceNext == GenerateEvidence \/ LoadEvidence

Init == TrackerInit /\ SpeedInit /\ RulesInit /\ FrameInit

SpecSpeed == Init /\ [][SpeedNext]_vars

SpecRules == Init /\ [][RulesNext]_vars

SpecTracker == Init /\ [][TrackerNext]_vars

SpecTriple == TripleInit /\ [][TripleNext]_vars

Spec == Init /\ [][Next]_vars

SpecEvidence == EvidenceInit /\ [][EvidenceNext]_vars

(***************************************************************************)
(* Claims about the trackers.                                              *)
(***************************************************************************)
\* Closer than the association gate of the specification (100 px)
WithinGate(p, q) == DistSq(p, q) < 100 * 100

\* One detection, of the same class as the last frame's and less than the gate away
SameObjectMoved(before, after) ==
    /\ Len(before) = 1
    /\ Len(after) = 1
    /\ before[1].original_detection.class_id = after[1].original_detection.class_id
    /\ WithinGate(before[1].centroid, after[1].centroid)

\* C1 (identity stability): when two consecutive update() calls of one tracker
\* each receive one detection of the same object, moved by less than the gate
\* distance, the actor returned by the second call has the id of the first.
C1_IdentityStable ==
    [][ (called' = called /\ SameObjectMoved(tracked, tracked'))
            => tracked'[1].id = tracked[1].id ]_vars

\* C3 (id uniqueness): the ids a tracker instance gives out are strictly
\* increasing in the order they are given out, within one call and across
\* calls, so no id is given to two actors.
C3_IdsStrictlyIncreasing ==
    /\ \A tr \in Trackers : \A i, j \in 1..Len(allocated[tr]) :
            i < j => allocated[tr][i] < allocated[tr][j]
    /\ \A i, j \in 1..Len(tracked) : i < j => tracked[i].id < tracked[j].id
    /\ called \in Trackers =>
            \A i \in 1..Len(tracked) :
                tracked[i].id = allocated[called][Len(allocated[called]) - Len(tracked) + i]

\* C3 witness: the vehicle tracker has given out a second id in a later call
\* than the first, whose actor is gone from the output.
C3_Witness ==
    /\ called = "vehicle"
    /\ Len(allocated["vehicle"]) = 2
    /\ Len(tracked) = 1

\* C4 (eviction): an actor that went unmatched for more than max_age update()
\* calls is in the output of no later call, and its id was given to no other
\* actor.
C4_EvictedStayGone ==
    \A id \in evicted :
        /\ called = "vehicle" => id \notin TrackIds(tracked)
        /\ Cardinality({ k \in 1..Len(allocated["vehicle"]) : allocated["vehicle"][k] = id }) = 1

\* C4 witness: an update() call that returns an actor after another actor was
\* evicted.
C4_Witness ==
    /\ evicted # {}
    /\ called = "vehicle"
    /\ Len(tracked) > 0

(***************************************************************************)
(* Claims about the speed estimator.                                       *)
(***************************************************************************)
LastCall == est_log[Len(est_log)]

\* Call j is the second call for its id and call i the first
FirstThenSecond(i, j) ==
    /\ i < j
    /\ est_log[i].id = est_log[j].id
    /\ \A k \in 1..(j - 1) : est_log[k].id = est_log[j].id => k = i

\* s is sqrt(d2) * 0.1 * 3.6 / (dt / TicksPerSec) km/h, for dt > 0
IsFormulaSpeed(s, d2, dt) ==
    IF d2 = 0 THEN SpeedIs(s, 0)
    ELSE /\ s.d2 = d2
         /\ s.den > 0
         /\ s.num * 100 * dt = 36 * TicksPerSec * s.den

\* C2 (history overwrite): after every estimate_speed(id, pos, t) call the
\* estimator's stored position and time for id are pos and t.
C2_HistoryOverwritten ==
    Len(est_log) > 0 =>
        /\ LastCall.id \in DOMAIN previous_positions
        /\ previous_positions[LastCall.id] = LastCall.pos
        /\ previous_times[LastCall.id] = LastCall.time

\* C5 (kinematic formula): the second call for an id, at a later time than the
\* first, returns distance(P0, P1) * 0.1 * 3.6 / (t1 - t0) km/h; from (0,0) to
\* (100,0) in one second that is 36 km/h.
C5_SecondCallFormula ==
    \A i, j \in 1..Len(est_log) :
        (FirstThenSecond(i, j) /\ est_log[j].time > est_log[i].time) =>
            /\ IsFormulaSpeed(est_log[j].speed,
                              DistSq(est_log[i].pos, est_log[j].pos),
                              est_log[j].time - est_log[i].time)
            /\ (/\ est_log[i].pos = <<0, 0>>
                /\ est_log[j].pos = <<100, 0>>
                /\ est_log[j].time - est_log[i].time = TicksPerSec)
                    => SpeedIs(est_log[j].speed, 36)

\* C5 witness: an id seen at (0,0) and one second later at (100,0), the second
\* call returning 36 km/h.
C5_Witness ==
    /\ Len(est_log) = 2
    /\ FirstThenSecond(1, 2)
    /\ est_log[1].pos = <<0, 0>>
    /\ est_log[2].pos = <<100, 0>>
    /\ est_log[2].time - est_log[1].time = TicksPerSec
    /\ SpeedIs(est_log[2].speed, 36)

\* C6 (first call): a call for an id the estimator holds no history of returns
\* 0 and leaves its position and time stored as the id's history.
C6_FirstCallZeroAndStored ==
    /\ \A j \in 1..Len(est_log) : ~est_log[j].known => SpeedIs(est_log[j].speed, 0)
    /\ (Len(est_log) > 0 /\ ~LastCall.known) =>
            /\ LastCall.id \in DOMAIN previous_positions
            /\ LastCall.id \in DOMAIN previous_times
            /\ previous_positions[LastCall.id] = LastCall.pos
            /\ previous_times[LastCall.id] = LastCall.time

\* C6 witness: the first call for id 2, away from the origin and after time 0,
\* made when the estimator already holds id 1.
C6_Witness ==
    /\ Len(est_log) = 2
    /\ est_log[1].id = 1
    /\ LastCall.id = 2
    /\ ~LastCall.known
    /\ LastCall.pos = <<100, 0>>
    /\ LastCall.time = 9
    /\ previous_positions[2] = <<100, 0>>

\* C7 (elapsed time guard): a call for a known id at a time equal to or before
\* the stored time returns 0, and no call returns a negative speed or divides
\* by zero.
C7_NoNegativeNoDivZero ==
    \A j \in 1..Len(est_log) :
        /\ (est_log[j].known /\ est_log[j].time <= est_log[j].prev_time)
                => SpeedIs(est_log[j].speed, 0)
        /\ ~SpeedNegative(est_log[j].speed)
        /\ est_log[j].speed.den > 0

\* C7 witness: a call for a known id with an earlier time than the stored one
\* and another position, returning 0.
C7_Witness ==
    /\ Len(est_log) > 0
    /\ LastCall.known
    /\ LastCall.time < LastCall.prev_time
    /\ LastCall.pos # LastCall.prev_pos
    /\ SpeedIs(LastCall.speed, 0)

(***************************************************************************)
(* Claims about the rules.                                                 *)
(***************************************************************************)
\* The speed estimate_speed returned for the k-th vehicle of the last
\* detect_overspeeding call
EstimatedSpeed(k) == est_log[Len(est_log) - Len(rule_tracks) + k].speed

EventsOf(id) == { e \in 1..Len(violations) : violations[e].vehicle_id = id }

\* C8 (overspeeding rule): detect_overspeeding returns exactly one event, with
\* the vehicle's id, speed and bbox, for each vehicle whose estimated speed is
\* above the threshold and the minimum speed, and none for any other vehicle;
\* 61 km/h gives an event, exactly 60 km/h gives none.
C8_OverspeedRule ==
    rule = "overspeeding" =>
        /\ \A k \in 1..Len(rule_tracks) :
             LET v == rule_tracks[k]
                 s == EstimatedSpeed(k)
                 over == SpeedGt(s, OVERSPEED_THRESHOLD) /\ SpeedGt(s, MinSpeed)
             IN  /\ Cardinality(EventsOf(v.id)) = IF over THEN 1 ELSE 0
                 /\ \A e \in EventsOf(v.id) :
                        violations[e] = [ type |-> "overspeeding", vehicle_id |-> v.id,
                                          speed |-> s, evidence |-> v.bbox ]
                 /\ SpeedIs(s, 61) => Cardinality(EventsOf(v.id)) = 1
                 /\ SpeedIs(s, 60) => Cardinality(EventsOf(v.id)) = 0
        /\ \A e \in 1..Len(violations) : violations[e].vehicle_id \in TrackIds(rule_tracks)

\* C8 witness: a call with a vehicle estimated at 61 km/h, which gets the one
\* event returned.
C8_Witness ==
    /\ rule = "overspeeding"
    /\ Len(rule_tracks) = 1
    /\ SpeedIs(EstimatedSpeed(1), 61)
    /\ Len(violations) = 1
    /\ violations[1].vehicle_id = rule_tracks[1].id

\* An event of the last detect_* call names actor id
HasEvent(id, key) == \E e \in 1..Len(violations) : violations[e][key] = id

\* C9 (signal-jump rule): with a red light, detect_signal_jump returns a
\* 'signal_jump' event for a vehicle if and only if its centroid is within 50 px
\* of the stop line.
C9_SignalJumpRule ==
    (/\ rule = "signal_jump"
     /\ rule_aux.traffic_light_bbox # NoLight) =>
        \A k \in 1..Len(rule_tracks) :
            HasEvent(rule_tracks[k].id, "vehicle_id")
                <=> Abs(rule_tracks[k].centroid[2] - rule_aux.stop_line_y) < 50

\* The helmet flag supplied for rider id is false
HelmetFlagFalse(id) ==
    \E h \in 1..Len(rule_aux.helmet_detections) :
        /\ rule_aux.helmet_detections[h].person_id = id
        /\ ~rule_aux.helmet_detections[h].helmet_detected

\* C10 (helmetless rule): detect_helmetless_riding returns a
\* 'helmetless_riding' event for a rider if and only if the rider's helmet flag
\* is false; a rider with a true flag, or with no flag, gets no event.
C10_HelmetlessRule ==
    rule = "helmetless_riding" =>
        \A k \in 1..Len(rule_tracks) :
            HasEvent(rule_tracks[k].id, "rider_id") <=> HelmetFlagFalse(rule_tracks[k].id)

\* Rider actors whose centroid is less than 100 px from the vehicle's
RidersWithinRadius(vehicle, riders) ==
    { k \in 1..Len(riders) :
        DistSq(vehicle.centroid, riders[k].centroid) < 100 * 100 }

StillTracked == { i \in DOMAIN unmatched : unmatched[i] = 0 }

\* C12 (stale kinematic entries): after every processed frame the speed
\* estimator holds history only for ids the vehicle tracker still returns; the
\* entry of an id the tracker has dropped is gone, so the estimator holds no
\* more entries than there are tracked vehicles.
C12_NoStaleEntries ==
    frame_result.status # "none" =>
        /\ DOMAIN previous_positions \subseteq StillTracked
        /\ DOMAIN previous_times \subseteq StillTracked

\* A collaborator failed while the last frame's violations were handled
CollaboratorFailed ==
    \E k \in 1..Len(frame_result.outcomes) : frame_result.outcomes[k] # "ok"

\* C13 (collaborator failure containment): when license-plate extraction or
\* evidence writing fails for a violation of a frame, process_frame still
\* returns the frame's violations and tracks, and the evidence of every other
\* violation of the frame is recorded.
C13_FailureContained ==
    (frame_result.status # "none" /\ CollaboratorFailed) =>
        /\ frame_result.status = "returned"
        /\ Len(evidence_list) >=
              Cardinality({ k \in 1..Len(frame_result.outcomes) :
                              frame_result.outcomes[k] \in { "ok", "ocr_error" } })

(***************************************************************************)
(* Claims about the evidence image.                                        *)
(***************************************************************************)
\* The actor id of an event
ActorIdOf(event) ==
    IF "vehicle_id" \in DOMAIN event THEN event.vehicle_id ELSE event.rider_id

\* C14 (evidence naming round-trip): every event of a rule carries a kind, an
\* actor id and a timestamp, and load_evidence, parsing the name
\* generate_evidence gave the event's image, recovers the same kind (also one
\* with underscores in it), the same actor id and the same timestamp to the
\* second.
C14_NamingRoundTrip ==
    /\ \A e \in RuleEvents :
          /\ { "type", "timestamp" } \subseteq DOMAIN e
          /\ "vehicle_id" \in DOMAIN e \/ "rider_id" \in DOMAIN e
    /\ loaded # << >> =>
          LET e == violations[1]
              r == loaded[1]
          IN  /\ Len(loaded) = 1
              /\ r.violation_type = KindChars[e.type]
              /\ \A i \in 1..Len(r.vehicle_id) : IsDigit(r.vehicle_id[i])
              /\ ParseInt(r.vehicle_id) = ActorIdOf(e)
              /\ r.timestamp = [ e.timestamp EXCEPT !.microsecond = 0 ]

\* C14 witness: the image of a 'signal_jump' event of actor 123, stamped with a
\* time that has microseconds, has been named and loaded back.
C14_Witness ==
    /\ loaded # << >>
    /\ violations[1].type = "signal_jump"
    /\ violations[1].vehicle_id = 123
    /\ violations[1].timestamp.microsecond > 0
    /\ loaded[1].violation_type = KindChars["signal_jump"]
    /\ loaded[1].timestamp.second = violations[1].timestamp.second

(***************************************************************************)
(* Claims about calling a rule twice.                                      *)
(***************************************************************************)
\* The events of detect_overspeeding(tracks, t, estimator) on the estimator
\* (pp, pt), and the estimator after the call
OverspeedCall(tracks, t, pp, pt) ==
    OverspeedLoop(tracks, 1, t, [pp |-> pp, pt |-> pt, log |-> << >>, out |-> << >>])

\* The lists of one tracked vehicle
OneVehicleLists == { << MkTrack(i, d) >> : i \in VehicleIds, d \in DetsOf(BBoxes, 2) }

\* C15 (rule-call idempotence): detect_overspeeding called twice in a row with
\* the same tracks, the same frame time and the same estimator returns the same
\* event list both times, whatever the estimator held before the first call:
\* for every vehicle and time on every estimator state, and for the repetition
\* of every call made. (The other rules read nothing but their arguments and
\* their random draws.)
C15_OverspeedIdempotent ==
    /\ \A tracks \in OneVehicleLists, t \in Times :
          LET first == OverspeedCall(tracks, t, previous_positions, previous_times)
              second == OverspeedCall(tracks, t, first.pp, first.pt)
          IN  second.out = first.out
    /\ rule = "overspeeding" =>
          OverspeedCall(rule_tracks, rule_aux.frame_time,
                        previous_positions, previous_times).out = violations

\* C15 witness: a detect_overspeeding call that returned an event, on an
\* estimator that knew the vehicle, and whose repetition returns it again.
C15_Witness ==
    /\ rule = "overspeeding"
    /\ Len(violations) = 1
    /\ LastCall.known
    /\ OverspeedCall(rule_tracks, rule_aux.frame_time,
                     previous_positions, previous_times).out = violations

\* C16 (no-signal safety): detect_signal_jump called with no traffic light
\* (traffic_light_bbox None) returns the empty list, whatever vehicles and stop
\* line it is given.
C16_NoSignalNoEvent ==
    (rule = "signal_jump" /\ rule_aux.traffic_light_bbox = NoLight) =>
        violations = << >>

\* C16 witness: a call with no traffic light and two vehicles, one of them
\* within 50 px of the stop line, that returned the empty list.
C16_Witness ==
    /\ rule = "signal_jump"
    /\ rule_aux.traffic_light_bbox = NoLight
    /\ Len(rule_tracks) = 2
    /\ \E k \in 1..Len(rule_tracks) :
          Abs(rule_tracks[k].centroid[2] - rule_aux.stop_line_y) < 50
    /\ violations = << >>

\* C17 (empty frame): an update() call with no detections allocates no id and
\* creates no actor, and every actor the tracker returned in the call before
\* is still held by it, one unmatched step older (one step is within max_age).
C17_EmptyFrameAges ==
    [][ \A tr \in Trackers :
          (called' = tr /\ tracked' = << >>) =>
              /\ next_id'[tr] = next_id[tr]
              /\ allocated'[tr] = allocated[tr]
              /\ called = tr =>
                    \A id \in TrackIds(tracked) : id \in DOMAIN TrackedActors(tr) ]_vars

\* The centroids of the actors are pairwise more than the gate (100 px) apart
PairwiseBeyondGate(tracks) ==
    \A i, j \in 1..Len(tracks) :
        i # j => DistSq(tracks[i].centroid, tracks[j].centroid) > 100 * 100

\* p is the midpoint of bbox, in whole pixels
IsMidpoint(p, bbox) ==
    /\ 2 * p[1] <= bbox[1] + bbox[3] /\ bbox[1] + bbox[3] <= 2 * p[1] + 1
    /\ 2 * p[2] <= bbox[2] + bbox[4] /\ bbox[2] + bbox[4] <= 2 * p[2] + 1

\* C18 (identity creation): the first update() call of a tracker, with N
\* detections whose centroids are pairwise farther apart than the gate, returns
\* N actors, one per detection and in their order, with N pairwise distinct ids
\* that are all the ids the tracker has allocated, each with its detection's
\* bbox and the midpoint of that bbox as centroid.
C18_IdentityCreation ==
    (/\ called \in Trackers
     /\ Len(allocated[called]) = Len(tracked)
     /\ PairwiseBeyondGate(tracked)) =>
        /\ next_id[called] = Len(tracked)
        /\ \A i, j \in 1..Len(tracked) : i # j => tracked[i].id # tracked[j].id
        /\ TrackIds(tracked) = { allocated[called][k] : k \in 1..Len(allocated[called]) }
        /\ \A i \in 1..Len(tracked) :
              /\ tracked[i].id >= 1
              /\ tracked[i].bbox = tracked[i].original_detection.bbox
              /\ IsMidpoint(tracked[i].centroid, tracked[i].bbox)

\* C18 witness: the first call of the vehicle tracker, with two detections about
\* 117 px apart, returned two actors with the ids 1 and 2.
C18_Witness ==
    /\ called = "vehicle"
    /\ Len(allocated["vehicle"]) = 2
    /\ Len(tracked) = 2
    /\ PairwiseBeyondGate(tracked)
    /\ tracked[1].centroid = <<0, 60>>
    /\ tracked[2].centroid = <<100, 0>>
    /\ TrackIds(tracked) = { 1, 2 }

\* C19 (the pipeline never reports overspeeding): over any sequence of
\* process_frame calls, every estimate_speed call is for an id the estimator
\* has no history of and returns 0, and no frame's violations hold an
\* 'overspeeding' event.
C19_NeverOverspeeding ==
    /\ \A j \in 1..Len(est_log) :
          /\ ~est_log[j].known
          /\ SpeedIs(est_log[j].speed, 0)
    /\ rule = "overspeeding" => violations = << >>
    /\ frame_result.status # "none" =>
          \A e \in 1..Len(frame_result.violations) :
              frame_result.violations[e].type # "overspeeding"

\* C19 witness: a vehicle at (0,240) in one frame and a vehicle at (100,0) in a
\* frame 0.36 s later (260 px apart: 260 km/h by the estimator's scale, had it
\* been one id): two ids, two zero speeds, no event.
C19_Witness ==
    /\ frame_result.status = "returned"
    /\ Len(est_log) = 2
    /\ est_log[1].pos = <<0, 240>>
    /\ est_log[2].pos = <<100, 0>>
    /\ est_log[2].time - est_log[1].time = 9
    /\ est_log[1].id # est_log[2].id
    /\ SpeedIs(est_log[2].speed, 0)
    /\ Len(frame_result.vehicle_tracks) = 1
    /\ frame_result.violations = << >>
====
